---- MODULE Spec2Model ----
(***************************************************************************)
(* RedisCache (rediscache/__init__.py): the refresh coordination protocol  *)
(* of the `cache` decorator, for one cache key shared by concurrent        *)
(* invocations of the wrapped function.                                    *)
(*                                                                         *)
(* The Redis server is the shared state: the cache entry of the key (value *)
(* and remaining TTL), the refresh lock "." + key (remaining TTL) and the  *)
(* seven statistics counters.  Every Redis command of the wrapper and of   *)
(* refreshvalue is one atomic action; an invocation is a call c with the   *)
(* program position pc[c] in the wrapper and rpc[c] in the refreshvalue it *)
(* runs in-line or in its thread.  Time advances by Tick (one second): the *)
(* Redis commands and the statements between them take no time at the      *)
(* scale of the TTLs, which are whole seconds; only the wrapped function   *)
(* and sleep(1) do.                                                        *)
(***************************************************************************)
EXTENDS Naturals, Integers, Sequences, FiniteSets, TLC

\* ---------------------------------------------------------------- bounds
\* Number of invocations of the wrapped function in a behaviour.
MaxCalls == 3
\* Largest refresh time, in seconds, of a decorator.
MaxRefresh == 1
\* Number of get_stats calls in a behaviour, and of invocations beside them.
MaxGetStats == 2
MaxStatCalls == 1
\* Number of positional and of keyword arguments given to _create_key.
MaxArgs == 2

Calls == 1..MaxCalls

\* ------------------------------------------------------------- constants
REFRESH == "Refresh"
WAIT == "Wait"
SLEEP == "Sleep"
FAILED == "Failed"
MISSED == "Missed"
SUCCESS == "Success"
DEFAULT == "Default"
STATS == <<REFRESH, WAIT, SLEEP, FAILED, MISSED, SUCCESS, DEFAULT>>
StatNames == {STATS[i] : i \in 1..Len(STATS)}

\* ---------------------------------------------------------------- values
\* A Python value that may be None: <<>> is None, <<v>> is the value v.
None == <<>>
Some(v) == <<v>>
IsNone(o) == o = None
Val(o) == o[1]

\* What the wrapped function can return: the empty text, or a text that
\* differs from call to call (as the time-stamped greeting of test_refresh
\* does); and the decorator's default (test_default).
Fresh(c) == "v" \o ToString(c)
FValues == {""} \cup {Fresh(c) : c \in 0..MaxCalls}
DefaultValue == "Default"
\* Outcome of one call of the wrapped function: a value or an exception.
Raise == <<>>
FResults(c) == {"", Fresh(c)}
FOutcomes(c) == {Some(v) : v \in FResults(c)} \cup {Raise}

\* json.dumps / json.loads on text: dumps quotes the text, loads strips the
\* quotes of a text that dumps produced.
Dumps(v) == "\"" \o v \o "\""
Loads(s) == CHOOSE v \in FValues \cup {DefaultValue} : Dumps(v) = s

\* Python truth value of a text: the empty text is false.
Truthy(v) == v # ""

\* ----------------------------------------------------------------- state
VARIABLES
    cfg,           \* the decorator's parameters and RedisCache.enabled
    store_val,     \* Redis: value at key (None when the key does not exist)
    store_ttl,     \* Redis: seconds the key still lives
    lock_ttl,      \* Redis: seconds "." + key still lives (0: does not exist)
    stats,         \* Redis: the counters (0: the counter key does not exist)
    pc,            \* position of each invocation in wrapper
    cached_value,  \* wrapper's local cached_value
    rpc,           \* position of each invocation's refreshvalue
    new_value,     \* refreshvalue's local new_value
    ret,           \* value the invocation returned
    \* History of the run, read by the properties only:
    read0,         \* what the GET of line 228 returned
    mode,          \* "thread" / "inline": how the admitted invocation refreshes
    failed,        \* the invocation's call of the function raised
    defaulted,     \* the invocation took the default of lines 260-263
    at_get,        \* snapshot taken when the invocation found a value (line 228)
    at_ret,        \* snapshot taken when that invocation returned
    overlap,       \* another refreshvalue had not returned at the SET NX
    was_expired,   \* the key had been written and had expired at line 228
    last_writer,   \* the invocation whose refreshvalue wrote the key last (0: none)
    age,           \* seconds since the key was last written
    overrun,       \* a refresh lock expired while a refreshvalue had yet to write
    sleeps,        \* times the invocation went through lines 255-256
    steady,        \* no other invocation was admitted while this one polled
    \* get_stats, called by one more client, one call at a time:
    gs_pc,         \* "idle", "get" (line 318) or "del" (lines 320-321)
    gs_i,          \* index in STATS of the counter the call comes to next
    gs_delete,     \* the call's parameter delete
    gs_out,        \* the call's local stats (0: None)
    gs_at,         \* history: the counters and positions when the call began
    gs_log,        \* history: the calls that returned, in order
    lost,          \* history: increments deleted by line 321 and never read
    \* _create_key:
    key_in,        \* its arguments
    key_out        \* the key it returned (None: not called yet)

redis == <<store_val, store_ttl, lock_ttl>>
locals == <<cached_value, new_value>>
hist == <<read0, mode, failed, defaulted, at_get, at_ret, overlap, was_expired,
          last_writer, age, overrun>>
poll == <<sleeps, steady>>
gstats == <<gs_pc, gs_i, gs_delete, gs_out, gs_at, gs_log, lost>>
keyv == <<key_in, key_out>>
aux == <<poll, gstats, keyv>>
vars == <<cfg, redis, stats, pc, rpc, locals, ret, hist, aux>>

\* The decorators: cache_raw, cache_raw_wait, cache_json, cache_json_wait
\* on an enabled cache, and any serializer on a disabled one; with
\* expire > refresh >= 1 and an optional retry (0 is Python's None).
Configs ==
    { c \in [enabled : BOOLEAN, wait : BOOLEAN, refresh : 1..MaxRefresh,
             expire : 2..(MaxRefresh + 1), retry : {0, MaxRefresh + 1},
             ser : BOOLEAN, deser : BOOLEAN] :
        /\ c.expire > c.refresh
        /\ c.deser => c.ser
        /\ c.enabled => (c.deser <=> c.ser)
        /\ ~c.enabled => (~c.wait /\ c.retry = 0) }

Serialize(v) == IF cfg.ser THEN Dumps(v) ELSE v
Deserialize(v) == IF cfg.deser THEN Loads(v) ELSE v

\* ex= of the SET NX of line 237.
LockEx == IF cfg.retry # 0 THEN cfg.retry ELSE cfg.refresh

Incr(s, name) == [s EXCEPT ![name] = @ + 1]

\* The invocation's SET NX succeeded.
Admitted(c) == mode[c] # "none"
\* An admitted invocation whose refreshvalue has yet to write the key.
Pending(c) == pc[c] = "wait" \/ rpc[c] \in {"start", "running", "failed", "set"}
\* An admitted invocation whose refreshvalue has not returned.
InFlight(c) == Pending(c) \/ rpc[c] = "setlock"

NoSnap == [adm |-> 0, ref |-> 0, fin |-> {}, busy |-> FALSE, lw |-> 0]
\* The run so far, as an invocation sees it; adm counts the admissions.
Snap(adm) ==
    [adm |-> adm, ref |-> stats[REFRESH], fin |-> {d \in Calls : rpc[d] = "fin"},
     busy |-> \E d \in Calls : InFlight(d), lw |-> last_writer]
Admissions == Cardinality({d \in Calls : Admitted(d)})

\* The positions before any invocation: the first n are made in the
\* behaviour, the others never.
Made(n) == [c \in Calls |-> IF c <= n THEN "idle" ELSE "never"]

NoCalls ==
    /\ stats = [n \in StatNames |-> 0]
    /\ cached_value = [c \in Calls |-> None]
    /\ rpc = [c \in Calls |-> "none"]
    /\ new_value = [c \in Calls |-> None]
    /\ ret = [c \in Calls |-> None]
    /\ read0 = [c \in Calls |-> None]
    /\ mode = [c \in Calls |-> "none"]
    /\ failed = [c \in Calls |-> FALSE]
    /\ defaulted = [c \in Calls |-> FALSE]
    /\ at_get = [c \in Calls |-> NoSnap]
    /\ at_ret = [c \in Calls |-> NoSnap]
    /\ overlap = [c \in Calls |-> FALSE]
    /\ was_expired = [c \in Calls |-> FALSE]
    /\ last_writer = 0
    /\ age = 0
    /\ overrun = FALSE
    /\ sleeps = [c \in Calls |-> 0]
    /\ steady = [c \in Calls |-> TRUE]

\* No call of get_stats yet.
NoStats ==
    /\ gs_pc = "idle"
    /\ gs_i = 0
    /\ gs_delete = FALSE
    /\ gs_out = [n \in StatNames |-> 0]
    /\ gs_at = <<>>
    /\ gs_log = <<>>
    /\ lost = [n \in StatNames |-> 0]

\* No call of _create_key yet.
NoKey ==
    /\ key_in = <<>>
    /\ key_out = None

\* A cache object on a Redis that holds nothing under the key.
Init ==
    /\ cfg \in Configs
    /\ store_val = None
    /\ store_ttl = 0
    /\ lock_ttl = 0
    /\ pc = Made(MaxCalls)
    /\ NoCalls /\ NoStats /\ NoKey

\* The same for behaviours with calls of get_stats, on a cache_raw or
\* cache_raw_wait decorator without retry; the refresh lock may exist, set
\* by line 237 in another process whose refresh has yet to write the key.
InitStats ==
    /\ cfg \in {g \in Configs : ~g.ser /\ g.retry = 0}
    /\ store_val = None
    /\ store_ttl = 0
    /\ lock_ttl \in {0, cfg.refresh}
    /\ pc = Made(MaxStatCalls)
    /\ NoCalls /\ NoStats /\ NoKey

\* A cache object on a Redis where a refreshvalue of an earlier invocation,
\* of a function that returned Fresh(0), ended t seconds ago: what lines
\* 195 and 197 wrote, t seconds older.
InitWarm ==
    /\ cfg \in Configs
    /\ \E t \in 0..(cfg.expire - 1) :
          /\ store_val = Some(Serialize(Fresh(0)))
          /\ store_ttl = cfg.expire - t
          /\ lock_ttl = IF t < cfg.refresh THEN cfg.refresh - t ELSE 0
    /\ pc = Made(MaxCalls)
    /\ NoCalls /\ NoStats /\ NoKey

\* Invocations are numbered in the order in which they begin.
MayBegin(c) == pc[c] = "idle" /\ (IF c = 1 THEN TRUE ELSE pc[c - 1] # "idle")

\* Where the wrapper goes with a cached_value cv after lines 237-247 or
\* after a re-read: the wait loop, the default, or the return of line 266.
AfterValue(cv) ==
    IF ~IsNone(cv) THEN "done" ELSE IF cfg.wait THEN "loop" ELSE "dflt"
Returned(cv, old) == IF ~IsNone(cv) THEN Some(Deserialize(Val(cv))) ELSE old
\* The snapshot of an invocation that found a value and returns now.
RetSnap(c, adm) ==
    at_ret' = [at_ret EXCEPT ![c] = IF IsNone(read0[c]) THEN @ ELSE Snap(adm)]

\* ----------------------------------------------------------- the wrapper
\* Lines 208-215 going on to line 231: the call is counted as a miss.
Direct_Counted(c, out) ==
    /\ MayBegin(c)
    /\ ~cfg.enabled
    /\ stats' = Incr(stats, MISSED)
    /\ IF out = Raise
         THEN /\ pc' = [pc EXCEPT ![c] = "raised"]
              /\ UNCHANGED ret
         ELSE /\ pc' = [pc EXCEPT ![c] = "done"]
              /\ ret' = [ret EXCEPT ![c] = Some(Deserialize(Serialize(Val(out))))]
    /\ UNCHANGED <<aux, cfg, redis, rpc, locals, hist>>

\* Lines 208-215 without lines 213-214: the deserializer is not applied.
Direct_Serialized(c, out) ==
    /\ MayBegin(c)
    /\ ~cfg.enabled
    /\ IF out = Raise
         THEN /\ pc' = [pc EXCEPT ![c] = "raised"]
              /\ UNCHANGED ret
         ELSE /\ pc' = [pc EXCEPT ![c] = "done"]
              /\ ret' = [ret EXCEPT ![c] = Some(Serialize(Val(out)))]
    /\ UNCHANGED <<aux, cfg, redis, stats, rpc, locals, hist>>

\* Lines 208-215: the cache is disabled, the function is called directly.
Direct(c, out) ==
    /\ MayBegin(c)
    /\ ~cfg.enabled
    /\ IF out = Raise
         THEN /\ pc' = [pc EXCEPT ![c] = "raised"]
              /\ UNCHANGED ret
         ELSE /\ pc' = [pc EXCEPT ![c] = "done"]
              /\ ret' = [ret EXCEPT ![c] = Some(Deserialize(Serialize(Val(out))))]
    /\ UNCHANGED <<aux, cfg, redis, stats, rpc, locals, hist>>

\* Line 228: cached_value = self.server.get(key)
Get(c) ==
    /\ MayBegin(c)
    /\ cfg.enabled
    /\ cached_value' = [cached_value EXCEPT ![c] = store_val]
    /\ pc' = [pc EXCEPT ![c] = "stat"]
    /\ read0' = [read0 EXCEPT ![c] = store_val]
    /\ at_get' = [at_get EXCEPT ![c] = Snap(Admissions)]
    /\ was_expired' = [was_expired EXCEPT ![c] =
                          last_writer # 0 /\ age >= cfg.expire]
    /\ UNCHANGED <<aux, cfg, redis, stats, rpc, new_value, ret, mode, failed,
                   defaulted, at_ret, overlap, last_writer, age, overrun>>

\* Lines 231-234 with `if not cached_value:` for the test of line 231.
IncrHitMiss_Truthy(c) ==
    /\ pc[c] = "stat"
    /\ stats' = Incr(stats, IF IsNone(cached_value[c]) \/ ~Truthy(Val(cached_value[c]))
                               THEN MISSED ELSE SUCCESS)
    /\ pc' = [pc EXCEPT ![c] = "setnx"]
    /\ UNCHANGED <<aux, cfg, redis, rpc, locals, ret, hist>>

\* Lines 231-234 with REFRESH for SUCCESS.
IncrHitMiss_Refresh(c) ==
    /\ pc[c] = "stat"
    /\ stats' = Incr(stats, IF IsNone(cached_value[c]) THEN MISSED ELSE REFRESH)
    /\ pc' = [pc EXCEPT ![c] = "setnx"]
    /\ UNCHANGED <<aux, cfg, redis, rpc, locals, ret, hist>>

\* Lines 231-234: incr(MISSED) or incr(SUCCESS)
IncrHitMiss(c) ==
    /\ pc[c] = "stat"
    /\ stats' = Incr(stats, IF IsNone(cached_value[c]) THEN MISSED ELSE SUCCESS)
    /\ pc' = [pc EXCEPT ![c] = "setnx"]
    /\ UNCHANGED <<aux, cfg, redis, rpc, locals, ret, hist>>

\* Line 240 as `if cached_value:`.
Detach_ValueOnly(cv) == ~IsNone(cv) /\ Truthy(Val(cv))

\* Line 240: `if cached_value or not wait`
Detach(cv) == (~IsNone(cv) /\ Truthy(Val(cv))) \/ ~cfg.wait

\* Lines 237-243 with thread.join() after thread.start() in
\* refreshvalueinthread: the invocation waits for its thread.
SetNX_Join(c) ==
    /\ pc[c] = "setnx"
    /\ IF lock_ttl = 0
         THEN /\ lock_ttl' = LockEx
              /\ IF Detach(cached_value[c])
                   THEN /\ mode' = [mode EXCEPT ![c] = "thread"]
                        /\ rpc' = [rpc EXCEPT ![c] = "start"]
                        /\ pc' = [pc EXCEPT ![c] = "inline"]
                        /\ UNCHANGED <<ret, at_ret>>
                   ELSE /\ mode' = [mode EXCEPT ![c] = "inline"]
                        /\ pc' = [pc EXCEPT ![c] = "wait"]
                        /\ UNCHANGED <<rpc, ret, at_ret>>
         ELSE /\ pc' = [pc EXCEPT ![c] = AfterValue(cached_value[c])]
              /\ ret' = [ret EXCEPT ![c] = Returned(cached_value[c], @)]
              /\ RetSnap(c, Admissions)
              /\ UNCHANGED <<lock_ttl, mode, rpc>>
    /\ overlap' = [overlap EXCEPT ![c] = \E d \in Calls \ {c} : InFlight(d)]
    /\ steady' = [d \in Calls |->
                    IF lock_ttl = 0 /\ d # c
                       /\ pc[d] \in {"loop", "sleepincr", "sleeping", "reread"}
                      THEN FALSE ELSE steady[d]]
    /\ UNCHANGED sleeps
    /\ UNCHANGED <<gstats, keyv, cfg, store_val, store_ttl, stats, locals, read0,
                   failed, defaulted, at_get, was_expired, last_writer, age,
                   overrun>>

\* Line 237 without nx=True: the SET always succeeds.
SetNX_Plain(c) ==
    /\ pc[c] = "setnx"
    /\ lock_ttl' = LockEx
    /\ IF Detach(cached_value[c])
         THEN /\ mode' = [mode EXCEPT ![c] = "thread"]
              /\ rpc' = [rpc EXCEPT ![c] = "start"]
              /\ pc' = [pc EXCEPT ![c] = AfterValue(cached_value[c])]
              /\ ret' = [ret EXCEPT ![c] = Returned(cached_value[c], @)]
              /\ RetSnap(c, Admissions + 1)
         ELSE /\ mode' = [mode EXCEPT ![c] = "inline"]
              /\ pc' = [pc EXCEPT ![c] = "wait"]
              /\ UNCHANGED <<rpc, ret, at_ret>>
    /\ overlap' = [overlap EXCEPT ![c] = \E d \in Calls \ {c} : InFlight(d)]
    /\ steady' = [d \in Calls |->
                    IF d # c /\ pc[d] \in {"loop", "sleepincr", "sleeping", "reread"}
                      THEN FALSE ELSE steady[d]]
    /\ UNCHANGED sleeps
    /\ UNCHANGED <<gstats, keyv, cfg, store_val, store_ttl, stats, locals, read0, failed,
                   defaulted, at_get, was_expired, last_writer, age, overrun>>

\* Lines 237-243: SET "."+key NX; when it succeeds, either start the thread
\* of refreshvalueinthread or go on to the in-line refresh.  An invocation
\* with a value, or without wait, goes on to line 260.
SetNX(c) ==
    /\ pc[c] = "setnx"
    /\ IF lock_ttl = 0
         THEN /\ lock_ttl' = LockEx
              /\ IF Detach(cached_value[c])
                   THEN /\ mode' = [mode EXCEPT ![c] = "thread"]
                        /\ rpc' = [rpc EXCEPT ![c] = "start"]
                        /\ pc' = [pc EXCEPT ![c] = AfterValue(cached_value[c])]
                        /\ ret' = [ret EXCEPT ![c] = Returned(cached_value[c], @)]
                        /\ RetSnap(c, Admissions + 1)
                   ELSE /\ mode' = [mode EXCEPT ![c] = "inline"]
                        /\ pc' = [pc EXCEPT ![c] = "wait"]
                        /\ UNCHANGED <<rpc, ret, at_ret>>
         ELSE /\ pc' = [pc EXCEPT ![c] = AfterValue(cached_value[c])]
              /\ ret' = [ret EXCEPT ![c] = Returned(cached_value[c], @)]
              /\ RetSnap(c, Admissions)
              /\ UNCHANGED <<lock_ttl, mode, rpc>>
    /\ overlap' = [overlap EXCEPT ![c] = \E d \in Calls \ {c} : InFlight(d)]
    /\ steady' = [d \in Calls |->
                    IF lock_ttl = 0 /\ d # c
                       /\ pc[d] \in {"loop", "sleepincr", "sleeping", "reread"}
                      THEN FALSE ELSE steady[d]]
    /\ UNCHANGED sleeps
    /\ UNCHANGED <<gstats, keyv, cfg, store_val, store_ttl, stats, locals, read0, failed,
                   defaulted, at_get, was_expired, last_writer, age, overrun>>

\* Line 245: incr(WAIT), then refreshvalue(key) runs in this thread.
IncrWait(c) ==
    /\ pc[c] = "wait"
    /\ stats' = Incr(stats, WAIT)
    /\ pc' = [pc EXCEPT ![c] = "inline"]
    /\ rpc' = [rpc EXCEPT ![c] = "start"]
    /\ UNCHANGED <<aux, cfg, redis, locals, ret, hist>>

\* Line 253 as `while cached_value is None:`, without the GET of the
\* refresh key.
Loop_NoLockTest(c) ==
    /\ pc[c] = "loop"
    /\ pc' = [pc EXCEPT ![c] = "sleepincr"]
    /\ UNCHANGED <<aux, cfg, redis, stats, rpc, locals, ret, hist>>

\* Line 253: the test of the wait loop, with its GET of the refresh key.
Loop(c) ==
    /\ pc[c] = "loop"
    /\ pc' = [pc EXCEPT ![c] = IF lock_ttl > 0 THEN "sleepincr" ELSE "dflt"]
    /\ UNCHANGED <<aux, cfg, redis, stats, rpc, locals, ret, hist>>

\* Lines 255-256: incr(SLEEP), then sleep(1) begins.
IncrSleep(c) ==
    /\ pc[c] = "sleepincr"
    /\ stats' = Incr(stats, SLEEP)
    /\ pc' = [pc EXCEPT ![c] = "sleeping"]
    /\ sleeps' = [sleeps EXCEPT ![c] = @ + 1]
    /\ UNCHANGED steady
    /\ UNCHANGED <<gstats, keyv, cfg, redis, rpc, locals, ret, hist>>

\* Line 257 left out: the loop sleeps and never looks at the key again.
Reread_Blind(c) ==
    /\ pc[c] = "reread"
    /\ pc' = [pc EXCEPT ![c] = "loop"]
    /\ UNCHANGED <<aux, cfg, redis, stats, rpc, locals, ret, hist>>

\* Line 257: cached_value = self.server.get(key), after the sleep; with a
\* value the loop ends and line 266 returns it.
Reread(c) ==
    /\ pc[c] = "reread"
    /\ cached_value' = [cached_value EXCEPT ![c] = store_val]
    /\ pc' = [pc EXCEPT ![c] = IF IsNone(store_val) THEN "loop" ELSE "done"]
    /\ ret' = [ret EXCEPT ![c] = Returned(store_val, @)]
    /\ UNCHANGED <<aux, cfg, redis, stats, rpc, new_value, hist>>

\* Lines 260-266 with a set(key, cached_value, ex=expire) after line 263:
\* the default that is returned is stored too.
UseDefault_Persist(c) ==
    /\ pc[c] = "dflt"
    /\ stats' = Incr(stats, DEFAULT)
    /\ cached_value' = [cached_value EXCEPT ![c] = Some(Serialize(DefaultValue))]
    /\ ret' = [ret EXCEPT ![c] = Some(Deserialize(Serialize(DefaultValue)))]
    /\ pc' = [pc EXCEPT ![c] = "done"]
    /\ defaulted' = [defaulted EXCEPT ![c] = TRUE]
    /\ store_val' = Some(Serialize(DefaultValue))
    /\ store_ttl' = cfg.expire
    /\ UNCHANGED <<aux, cfg, lock_ttl, rpc, new_value, read0, mode, failed, at_get,
                   at_ret, overlap, was_expired, last_writer, age, overrun>>

\* Lines 260-266: incr(DEFAULT), the default is returned.
UseDefault(c) ==
    /\ pc[c] = "dflt"
    /\ stats' = Incr(stats, DEFAULT)
    /\ cached_value' = [cached_value EXCEPT ![c] = Some(Serialize(DefaultValue))]
    /\ ret' = [ret EXCEPT ![c] = Some(Deserialize(Serialize(DefaultValue)))]
    /\ pc' = [pc EXCEPT ![c] = "done"]
    /\ defaulted' = [defaulted EXCEPT ![c] = TRUE]
    /\ UNCHANGED <<aux, cfg, redis, rpc, new_value, read0, mode, failed, at_get,
                   at_ret, overlap, was_expired, last_writer, age, overrun>>

\* ---------------------------------------------------------- refreshvalue
\* Line 173 moved into refreshvalueinthread: a refresh run in-line is not
\* counted.
IncrRefresh_ThreadOnly(c) ==
    /\ rpc[c] = "start"
    /\ stats' = IF mode[c] = "thread" THEN Incr(stats, REFRESH) ELSE stats
    /\ rpc' = [rpc EXCEPT ![c] = "running"]
    /\ UNCHANGED <<aux, cfg, redis, pc, locals, ret, hist>>

\* Lines 173-175: incr(REFRESH), then function(*args, **kwargs) is entered.
IncrRefresh(c) ==
    /\ rpc[c] = "start"
    /\ stats' = Incr(stats, REFRESH)
    /\ rpc' = [rpc EXCEPT ![c] = "running"]
    /\ UNCHANGED <<aux, cfg, redis, pc, locals, ret, hist>>

\* Line 195 with ex=expire + 1.
FReturn_Longer(c, v) ==
    /\ rpc[c] = "running"
    /\ new_value' = [new_value EXCEPT ![c] = Some(Serialize(v))]
    /\ store_val' = Some(Serialize(v))
    /\ store_ttl' = cfg.expire + 1
    /\ rpc' = [rpc EXCEPT ![c] = "setlock"]
    /\ last_writer' = c
    /\ age' = 0
    /\ UNCHANGED <<aux, cfg, lock_ttl, stats, pc, cached_value, ret, read0, mode,
                   failed, defaulted, at_get, at_ret, overlap, was_expired,
                   overrun>>

\* Line 195 with nx=True: a value already in the cache is kept.
FReturn_KeepFirst(c, v) ==
    /\ rpc[c] = "running"
    /\ new_value' = [new_value EXCEPT ![c] = Some(Serialize(v))]
    /\ store_val' = IF IsNone(store_val) THEN Some(Serialize(v)) ELSE store_val
    /\ store_ttl' = IF IsNone(store_val) THEN cfg.expire ELSE store_ttl
    /\ rpc' = [rpc EXCEPT ![c] = "setlock"]
    /\ last_writer' = c
    /\ age' = 0
    /\ UNCHANGED <<aux, cfg, lock_ttl, stats, pc, cached_value, ret, read0, mode,
                   failed, defaulted, at_get, at_ret, overlap, was_expired,
                   overrun>>

\* Lines 175, 192-195: the function returns v; the value, serialized, is
\* stored with set(key, new_value, ex=expire).
FReturn(c, v) ==
    /\ rpc[c] = "running"
    /\ new_value' = [new_value EXCEPT ![c] = Some(Serialize(v))]
    /\ store_val' = Some(Serialize(v))
    /\ store_ttl' = cfg.expire
    /\ rpc' = [rpc EXCEPT ![c] = "setlock"]
    /\ last_writer' = c
    /\ age' = 0
    /\ UNCHANGED <<aux, cfg, lock_ttl, stats, pc, cached_value, ret, read0, mode,
                   failed, defaulted, at_get, at_ret, overlap, was_expired,
                   overrun>>

\* Line 175 outside a try: the exception of the function leaves
\* refreshvalue, and the wrapper when the refresh is in-line.
FRaise_Propagate(c) ==
    /\ rpc[c] = "running"
    /\ rpc' = [rpc EXCEPT ![c] = "fin"]
    /\ pc' = [pc EXCEPT ![c] = IF @ = "inline" THEN "raised" ELSE @]
    /\ failed' = [failed EXCEPT ![c] = TRUE]
    /\ UNCHANGED <<aux, cfg, redis, stats, locals, ret, read0, mode, defaulted,
                   at_get, at_ret, overlap, was_expired, last_writer, age,
                   overrun>>

\* Lines 175-180 without the incr(FAILED) of line 180.
FRaise_Uncounted(c) ==
    /\ rpc[c] = "running"
    /\ rpc' = [rpc EXCEPT ![c] = "failed"]
    /\ failed' = [failed EXCEPT ![c] = TRUE]
    /\ UNCHANGED <<aux, cfg, redis, stats, pc, locals, ret, read0, mode, defaulted,
                   at_get, at_ret, overlap, was_expired, last_writer, age,
                   overrun>>

\* Lines 175-180: the function raises; the except clause does incr(FAILED).
FRaise(c) ==
    /\ rpc[c] = "running"
    /\ stats' = Incr(stats, FAILED)
    /\ rpc' = [rpc EXCEPT ![c] = "failed"]
    /\ failed' = [failed EXCEPT ![c] = TRUE]
    /\ UNCHANGED <<aux, cfg, redis, pc, locals, ret, read0, mode, defaulted,
                   at_get, at_ret, overlap, was_expired, last_writer, age,
                   overrun>>

\* Lines 188-193 without the incr(DEFAULT) of line 188.
IncrFailedDefault_NoCount(c) ==
    /\ rpc[c] = "failed"
    /\ new_value' = [new_value EXCEPT ![c] = Some(Serialize(DefaultValue))]
    /\ rpc' = [rpc EXCEPT ![c] = "set"]
    /\ UNCHANGED <<aux, cfg, redis, stats, pc, cached_value, ret, hist>>

\* Lines 188-193: incr(DEFAULT); new_value = default, serialized.
IncrFailedDefault(c) ==
    /\ rpc[c] = "failed"
    /\ stats' = Incr(stats, DEFAULT)
    /\ new_value' = [new_value EXCEPT ![c] = Some(Serialize(DefaultValue))]
    /\ rpc' = [rpc EXCEPT ![c] = "set"]
    /\ UNCHANGED <<aux, cfg, redis, pc, cached_value, ret, hist>>

\* Line 195 skipped after an exception: the default is not stored, the
\* refresh lock is still set.
SetValue_Skip(c) ==
    /\ rpc[c] = "set"
    /\ rpc' = [rpc EXCEPT ![c] = "setlock"]
    /\ UNCHANGED <<aux, cfg, redis, stats, pc, locals, ret, hist>>

\* Line 195, after an exception: set(key, new_value, ex=expire)
SetValue(c) ==
    /\ rpc[c] = "set"
    /\ store_val' = new_value[c]
    /\ store_ttl' = cfg.expire
    /\ rpc' = [rpc EXCEPT ![c] = "setlock"]
    /\ last_writer' = c
    /\ age' = 0
    /\ UNCHANGED <<aux, cfg, lock_ttl, stats, pc, locals, ret, read0, mode, failed,
                   defaulted, at_get, at_ret, overlap, was_expired, overrun>>

\* Line 197 with nx=True: a refresh lock that exists keeps its TTL.
SetLock_IfAbsent(c) ==
    /\ rpc[c] = "setlock"
    /\ lock_ttl' = IF lock_ttl = 0 THEN cfg.refresh ELSE lock_ttl
    /\ rpc' = [rpc EXCEPT ![c] = "fin"]
    /\ IF pc[c] = "inline"
         THEN /\ cached_value' = [cached_value EXCEPT ![c] = new_value[c]]
              /\ pc' = [pc EXCEPT ![c] = "done"]
              /\ ret' = [ret EXCEPT ![c] = Returned(new_value[c], @)]
              /\ RetSnap(c, Admissions)
         ELSE UNCHANGED <<pc, cached_value, ret, at_ret>>
    /\ UNCHANGED <<aux, cfg, store_val, store_ttl, stats, new_value, read0, mode,
                   failed, defaulted, at_get, overlap, was_expired,
                   last_writer, age, overrun>>

\* Lines 197-198 (and 247, 266 in-line): set("."+key, 1, ex=refresh); the
\* in-line caller gets new_value as its cached_value and returns it.
SetLock(c) ==
    /\ rpc[c] = "setlock"
    /\ lock_ttl' = cfg.refresh
    /\ rpc' = [rpc EXCEPT ![c] = "fin"]
    /\ IF pc[c] = "inline"
         THEN /\ cached_value' = [cached_value EXCEPT ![c] = new_value[c]]
              /\ pc' = [pc EXCEPT ![c] = "done"]
              /\ ret' = [ret EXCEPT ![c] = Returned(new_value[c], @)]
              /\ RetSnap(c, Admissions)
         ELSE UNCHANGED <<pc, cached_value, ret, at_ret>>
    /\ UNCHANGED <<aux, cfg, store_val, store_ttl, stats, new_value, read0, mode,
                   failed, defaulted, at_get, overlap, was_expired,
                   last_writer, age, overrun>>

\* ------------------------------------------------------------------ time
\* An invocation is at rest when it is not between two statements of the
\* wrapper or of refreshvalue: it has not begun or has returned, it sleeps
\* (line 256), or it is inside the wrapped function (line 175).
AtRest(c) ==
    /\ pc[c] \in {"never", "idle", "done", "raised", "sleeping", "inline"}
    /\ rpc[c] \in {"none", "running", "fin"}

\* Line 256 as a sleep that does not return: time passes, Redis expires
\* what has no time left, the sleepers stay asleep.
Tick_NoWake ==
    /\ \A c \in Calls : AtRest(c)
    /\ gs_pc = "idle"
    /\ store_ttl' = IF store_ttl > 0 THEN store_ttl - 1 ELSE 0
    /\ store_val' = IF store_ttl > 1 THEN store_val ELSE None
    /\ lock_ttl' = IF lock_ttl > 0 THEN lock_ttl - 1 ELSE 0
    /\ age' = IF last_writer # 0 /\ age < cfg.expire THEN age + 1 ELSE age
    /\ overrun' = (overrun \/ (lock_ttl = 1 /\ \E c \in Calls : Pending(c)))
    /\ UNCHANGED <<aux, cfg, stats, pc, rpc, locals, ret, read0, mode, failed,
                   defaulted, at_get, at_ret, overlap, was_expired, last_writer>>

\* One second passes while every invocation is at rest: Redis expires what
\* has no time left (ex= of lines 195, 197, 237), sleepers wake (line 256).
Tick ==
    /\ \A c \in Calls : AtRest(c)
    /\ gs_pc = "idle"
    /\ store_ttl' = IF store_ttl > 0 THEN store_ttl - 1 ELSE 0
    /\ store_val' = IF store_ttl > 1 THEN store_val ELSE None
    /\ lock_ttl' = IF lock_ttl > 0 THEN lock_ttl - 1 ELSE 0
    /\ pc' = [c \in Calls |-> IF pc[c] = "sleeping" THEN "reread" ELSE pc[c]]
    /\ age' = IF last_writer # 0 /\ age < cfg.expire THEN age + 1 ELSE age
    /\ overrun' = (overrun \/ (lock_ttl = 1 /\ \E c \in Calls : Pending(c)))
    /\ UNCHANGED <<aux, cfg, stats, rpc, locals, ret, read0, mode, failed,
                   defaulted, at_get, at_ret, overlap, was_expired, last_writer>>

Step ==
    \/ \E c \in Calls : \E out \in FOutcomes(c) : Direct(c, out)
    \/ \E c \in Calls : Get(c)
    \/ \E c \in Calls : IncrHitMiss(c)
    \/ \E c \in Calls : SetNX(c)
    \/ \E c \in Calls : IncrWait(c)
    \/ \E c \in Calls : Loop(c)
    \/ \E c \in Calls : IncrSleep(c)
    \/ \E c \in Calls : Reread(c)
    \/ \E c \in Calls : UseDefault(c)
    \/ \E c \in Calls : IncrRefresh(c)
    \/ \E c \in Calls : \E v \in FResults(c) : FReturn(c, v)
    \/ \E c \in Calls : FRaise(c)
    \/ \E c \in Calls : IncrFailedDefault(c)
    \/ \E c \in Calls : SetValue(c)
    \/ \E c \in Calls : SetLock(c)

Next == Step \/ Tick

Spec == Init /\ [][Next]_vars

\* ------------------------------------------------------------- get_stats
RECURSIVE SumTo(_, _)
SumTo(f, n) == IF n = 0 THEN 0 ELSE f[n] + SumTo(f, n - 1)

\* The incr commands the invocations have executed so far on counter n,
\* told from where each invocation is and what it went through.
Incremented(n) ==
    IF ~cfg.enabled THEN 0
    ELSE CASE n = REFRESH -> Cardinality({c \in Calls : rpc[c] \notin {"none", "start"}})
           [] n = WAIT    -> Cardinality({c \in Calls : mode[c] = "inline" /\ pc[c] # "wait"})
           [] n = SLEEP   -> SumTo(sleeps, MaxCalls)
           [] n = FAILED  -> Cardinality({c \in Calls : failed[c]})
           [] n = MISSED  -> Cardinality({c \in Calls :
                                pc[c] \notin {"never", "idle", "stat"} /\ IsNone(read0[c])})
           [] n = SUCCESS -> Cardinality({c \in Calls :
                                pc[c] \notin {"never", "idle", "stat"} /\ ~IsNone(read0[c])})
           [] n = DEFAULT -> Cardinality({c \in Calls : defaulted[c]})
                             + Cardinality({c \in Calls :
                                   failed[c] /\ rpc[c] \in {"set", "setlock", "fin"}})
\* All the incr commands executed so far.
Work == SumTo([i \in 1..Len(STATS) |-> Incremented(STATS[i])], Len(STATS))

\* Line 311: get_stats(delete) is called; the server exists on an enabled
\* cache only (lines 79-91).
GsBegin(delete) ==
    /\ cfg.enabled
    /\ gs_pc = "idle"
    /\ Len(gs_log) < MaxGetStats
    /\ gs_pc' = "get"
    /\ gs_i' = 1
    /\ gs_delete' = delete
    /\ gs_out' = [n \in StatNames |-> 0]
    /\ gs_at' = [stats |-> stats, work |-> Work]
    /\ UNCHANGED <<poll, keyv, gs_log, lost, cfg, redis, stats, pc, rpc,
                   locals, ret, hist>>

\* Line 322: return stats
GsReturn(out) ==
    /\ gs_pc' = "idle"
    /\ gs_i' = 0
    /\ gs_log' = Append(gs_log, [delete |-> gs_delete, out |-> out,
                                  stats |-> gs_at.stats, before |-> gs_at.work,
                                  after |-> Work])

\* Lines 318-319 with the test of `delete` left out.
GsGet_AlwaysDelete ==
    /\ gs_pc = "get"
    /\ gs_out' = [gs_out EXCEPT ![STATS[gs_i]] = stats[STATS[gs_i]]]
    /\ IF gs_i < Len(STATS)
         THEN /\ gs_i' = gs_i + 1
              /\ UNCHANGED <<gs_pc, gs_log>>
         ELSE /\ gs_pc' = "del" /\ gs_i' = 1
              /\ UNCHANGED gs_log
    /\ UNCHANGED <<poll, keyv, gs_delete, gs_at, lost, cfg, redis, stats, pc,
                   rpc, locals, ret, hist>>

\* Lines 318-319: one GET of the dict comprehension; after the last one
\* the deletes begin, or the call returns.
GsGet ==
    /\ gs_pc = "get"
    /\ gs_out' = [gs_out EXCEPT ![STATS[gs_i]] = stats[STATS[gs_i]]]
    /\ IF gs_i < Len(STATS)
         THEN /\ gs_i' = gs_i + 1
              /\ UNCHANGED <<gs_pc, gs_log>>
         ELSE IF gs_delete
                THEN /\ gs_pc' = "del" /\ gs_i' = 1
                     /\ UNCHANGED gs_log
                ELSE GsReturn(gs_out')
    /\ UNCHANGED <<poll, keyv, gs_delete, gs_at, lost, cfg, redis, stats, pc,
                   rpc, locals, ret, hist>>

\* Lines 320-321 as one GETDEL: the call returns what it deletes.
GsDelete_GetDel ==
    /\ gs_pc = "del"
    /\ stats' = [stats EXCEPT ![STATS[gs_i]] = 0]
    /\ lost' = [lost EXCEPT ![STATS[gs_i]] = @ + stats[STATS[gs_i]] - gs_out[STATS[gs_i]]]
    /\ gs_out' = [gs_out EXCEPT ![STATS[gs_i]] = stats[STATS[gs_i]]]
    /\ IF gs_i < Len(STATS)
         THEN /\ gs_i' = gs_i + 1
              /\ UNCHANGED <<gs_pc, gs_log>>
         ELSE GsReturn(gs_out')
    /\ UNCHANGED <<poll, keyv, gs_delete, gs_at, cfg, redis, pc, rpc,
                   locals, ret, hist>>

\* Lines 320-321 for all counters but the last.
GsDelete_ButLast ==
    /\ gs_pc = "del"
    /\ stats' = [stats EXCEPT ![STATS[gs_i]] = 0]
    /\ lost' = [lost EXCEPT ![STATS[gs_i]] = @ + stats[STATS[gs_i]] - gs_out[STATS[gs_i]]]
    /\ IF gs_i < Len(STATS) - 1
         THEN /\ gs_i' = gs_i + 1
              /\ UNCHANGED <<gs_pc, gs_log>>
         ELSE GsReturn(gs_out)
    /\ UNCHANGED <<poll, keyv, gs_delete, gs_out, gs_at, cfg, redis, pc, rpc,
                   locals, ret, hist>>

\* Lines 320-321 followed by a flushdb(): the cache entry and the refresh
\* lock are deleted with the counters.
GsDelete_Flush ==
    /\ gs_pc = "del"
    /\ stats' = [stats EXCEPT ![STATS[gs_i]] = 0]
    /\ lost' = [lost EXCEPT ![STATS[gs_i]] = @ + stats[STATS[gs_i]] - gs_out[STATS[gs_i]]]
    /\ IF gs_i < Len(STATS)
         THEN /\ gs_i' = gs_i + 1
              /\ UNCHANGED <<gs_pc, gs_log, redis>>
         ELSE /\ GsReturn(gs_out)
              /\ store_val' = None /\ store_ttl' = 0 /\ lock_ttl' = 0
    /\ UNCHANGED <<poll, keyv, gs_delete, gs_out, gs_at, cfg, pc, rpc,
                   locals, ret, hist>>

\* Lines 320-321: one DELETE of the loop; after the last one the call
\* returns the counters it read.
GsDelete ==
    /\ gs_pc = "del"
    /\ stats' = [stats EXCEPT ![STATS[gs_i]] = 0]
    /\ lost' = [lost EXCEPT ![STATS[gs_i]] = @ + stats[STATS[gs_i]] - gs_out[STATS[gs_i]]]
    /\ IF gs_i < Len(STATS)
         THEN /\ gs_i' = gs_i + 1
              /\ UNCHANGED <<gs_pc, gs_log>>
         ELSE GsReturn(gs_out)
    /\ UNCHANGED <<poll, keyv, gs_delete, gs_out, gs_at, cfg, redis, pc, rpc,
                   locals, ret, hist>>

NextStats ==
    \/ Next
    \/ \E delete \in BOOLEAN : GsBegin(delete)
    \/ GsGet
    \/ GsDelete

SpecStats == InitStats /\ [][NextStats]_vars

\* ----------------------------------------------------------- _create_key
\* f"'{value}'": the text of the value between quotes.
Quote(v) == "'" \o ToString(v) \o "'"

\* ",".join(values)
RECURSIVE Join(_)
Join(values) ==
    IF Len(values) = 0 THEN ""
    ELSE IF Len(values) = 1 THEN values[1]
    ELSE values[1] \o "," \o Join(Tail(values))

\* `if use_args:` and `if use_kwargs:` (lines 106, 114): the Python truth
\* value of an optional list; None and the empty list are false.
ListTruthy(l) == ~IsNone(l) /\ Val(l) # {}

\* Lines 107-109: the loop over enumerate(args), from the i-th argument on.
RECURSIVE ArgsIn(_, _, _)
ArgsIn(args, use, i) ==
    IF i > Len(args) THEN <<>>
    ELSE (IF (i - 1) \in use THEN <<Quote(args[i])>> ELSE <<>>)
         \o ArgsIn(args, use, i + 1)

\* Lines 115-117: the loop over kwargs.items(), from the i-th item on.
RECURSIVE KwargsIn(_, _, _)
KwargsIn(kwargs, use, i) ==
    IF i > Len(kwargs) THEN <<>>
    ELSE (IF kwargs[i][1] \in use THEN <<Quote(kwargs[i][2])>> ELSE <<>>)
         \o KwargsIn(kwargs, use, i + 1)

\* Lines 93-121: _create_key.  A dict is the sequence of its items, an
\* allow-list the set of its elements.
create_key(name, args, use_args, kwargs, use_kwargs) ==
    LET from_args ==
            IF Len(args) > 0
              THEN IF ListTruthy(use_args)
                     THEN ArgsIn(args, Val(use_args), 1)
                     ELSE [i \in 1..Len(args) |-> Quote(args[i])]
              ELSE <<>>
        from_kwargs ==
            IF Len(kwargs) > 0
              THEN IF ListTruthy(use_kwargs)
                     THEN KwargsIn(kwargs, Val(use_kwargs), 1)
                     ELSE [i \in 1..Len(kwargs) |-> Quote(kwargs[i][2])]
              ELSE <<>>
    IN  name \o "(" \o Join(from_args \o from_kwargs) \o ")"

\* The arguments _create_key is called with: values 1 and 2, keyword
\* names "riri" and "fifi", allow-lists that may be None, empty, or name
\* an index or a keyword that is not there.
ArgValues == {1, 2}
ArgNames == {"riri", "fifi"}
SeqsUpTo(S, n) == UNION {[1..k -> S] : k \in 0..n}
KeyInputs ==
    [name : {"my_function"},
     args : SeqsUpTo(ArgValues, MaxArgs),
     use_args : {None} \cup {Some(u) : u \in SUBSET (0..MaxArgs)},
     kwargs : {kw \in SeqsUpTo(ArgNames \X ArgValues, MaxArgs) :
                 \A i, j \in 1..Len(kw) : i # j => kw[i][1] # kw[j][1]},
     use_kwargs : {None} \cup {Some(u) : u \in SUBSET (ArgNames \cup {"loulou"})}]

\* A cache object and the arguments of one call of _create_key.
InitKey ==
    /\ cfg \in Configs
    /\ store_val = None
    /\ store_ttl = 0
    /\ lock_ttl = 0
    /\ pc = Made(0)
    /\ NoCalls /\ NoStats
    /\ key_in \in KeyInputs
    /\ key_out = None

\* Lines 93-121 (called at line 218, and by test_create_key).
CallCreateKey ==
    /\ IsNone(key_out)
    /\ key_out' = Some(create_key(key_in.name, key_in.args, key_in.use_args,
                                  key_in.kwargs, key_in.use_kwargs))
    /\ UNCHANGED <<key_in, poll, gstats, cfg, redis, stats, pc, rpc, locals,
                   ret, hist>>

NextKey == CallCreateKey

SpecKey == InitKey /\ [][NextKey]_vars

SpecWarm == InitWarm /\ [][Next]_vars

\* The steps of the wrapper of invocation c once it has begun, and those of
\* its refreshvalue, the return or the exception of the function included.
Wrapper(c) ==
    \/ IncrHitMiss(c) \/ SetNX(c) \/ IncrWait(c) \/ Loop(c) \/ IncrSleep(c)
    \/ Reread(c) \/ UseDefault(c)
Refresher(c) ==
    \/ IncrRefresh(c) \/ (\E v \in FResults(c) : FReturn(c, v)) \/ FRaise(c)
    \/ IncrFailedDefault(c) \/ SetValue(c) \/ SetLock(c)

\* Threads that can run do run, every call of the function ends, and time
\* passes; whether and when an invocation is made is left open.
Fairness ==
    /\ WF_vars(Tick)
    /\ \A c \in Calls : WF_vars(Wrapper(c)) /\ WF_vars(Refresher(c))

SpecLive == Init /\ [][Next]_vars /\ Fairness

TypeOK ==
    /\ cfg \in Configs
    /\ store_ttl \in 0..cfg.expire
    /\ lock_ttl \in 0..(MaxRefresh + 1)
    /\ IsNone(store_val) <=> store_ttl = 0
    /\ \A c \in Calls : Len(ret[c]) <= 1
\* ------------------------------------------------------------ properties
\* What the caller gets when the default is returned (lines 263, 266).
DefaultRet == Some(Deserialize(Serialize(DefaultValue)))
\* What the caller gets for the value v of the wrapped function.
ValueRet(v) == Some(Deserialize(Serialize(v)))
Passed(c) == pc[c] \notin {"idle", "stat", "setnx"}
Hit(c) == ~IsNone(read0[c])
Miss(c) == pc[c] # "idle" /\ IsNone(read0[c])
\* Invocation d began after the refreshvalue of c had returned, and found
\* the value that c wrote.
ReadAfter(c, d) ==
    /\ c # d /\ pc[d] = "done" /\ Hit(d)
    /\ c \in at_get[d].fin /\ at_get[d].lw = c
OnlyCalls(c, d) == \A e \in Calls \ {c, d} : pc[e] = "idle"

\* C1 as stated: with wait=false, an invocation that finds neither entry
\* nor lock returns the default without running the function itself; an
\* invocation that begins after its refresh is complete and finds the entry
\* returns what the function computed; and with these two invocations alone
\* Refresh is 1.
C1_Original ==
    (cfg.enabled /\ ~cfg.wait) =>
        /\ \A c \in Calls : (Miss(c) /\ Admitted(c)) =>
              /\ mode[c] = "thread"
              /\ pc[c] = "done" => (ret[c] = DefaultRet /\ defaulted[c])
        /\ \A c, d \in Calls : (Miss(c) /\ ReadAfter(c, d)) =>
              /\ ret[d] = Some(Deserialize(Val(new_value[c])))
              /\ ~failed[c] => ret[d] \in {ValueRet(v) : v \in FResults(c)}
              /\ OnlyCalls(c, d) => stats[REFRESH] = 1

\* C1 as amended: Refresh is 1 when the second invocation is not admitted
\* (it came while the refresh lock written by the refresh still existed).
C1_ColdStart ==
    (cfg.enabled /\ ~cfg.wait) =>
        /\ \A c \in Calls : (Miss(c) /\ Admitted(c)) =>
              /\ mode[c] = "thread"
              /\ pc[c] = "done" => (ret[c] = DefaultRet /\ defaulted[c])
        /\ \A c, d \in Calls : (Miss(c) /\ ReadAfter(c, d)) =>
              /\ ret[d] = Some(Deserialize(Val(new_value[c])))
              /\ ~failed[c] => ret[d] \in {ValueRet(v) : v \in FResults(c)}
              /\ (OnlyCalls(c, d) /\ ~Admitted(d)) => stats[REFRESH] = 1

\* The first invocation returned the default while its thread ran, and a
\* second one, not admitted, returned the value of the function.
C1_Witness ==
    \E c, d \in Calls :
        /\ cfg.enabled /\ ~cfg.wait
        /\ Miss(c) /\ ReadAfter(c, d) /\ OnlyCalls(c, d)
        /\ ret[c] = DefaultRet /\ ~failed[c] /\ ~Admitted(d)
        /\ ret[d] = ValueRet(Fresh(c))

\* C2: with wait=true, an invocation that finds no entry returns a value
\* the function computed and does not take the default, whether it is
\* admitted and refreshes in-line or is not admitted and polls, provided no
\* refresh lock has expired on a pending refresh and the function has not
\* raised.
C2_WaitGetsValue ==
    (cfg.enabled /\ cfg.wait) =>
        \A c \in Calls :
            (pc[c] = "done" /\ Miss(c) /\ ~overrun /\ \A d \in Calls : ~failed[d]) =>
                /\ ~defaulted[c]
                /\ Admitted(c) =>
                      /\ mode[c] = "inline"
                      /\ ret[c] \in {ValueRet(v) : v \in FResults(c)}
                /\ ~Admitted(c) =>
                      \E d \in Calls \ {c} :
                          /\ rpc[d] \in {"setlock", "fin"}
                          /\ ret[c] = Some(Deserialize(Val(new_value[d])))
                          /\ ret[c] \in {ValueRet(v) : v \in FResults(d)}

\* An invocation that was not admitted slept, and returned the value that
\* the in-line refresh of another computed.
C2_Witness ==
    \E c, d \in Calls :
        /\ cfg.enabled /\ cfg.wait /\ ~overrun /\ \A e \in Calls : ~failed[e]
        /\ c # d /\ pc[c] = "done" /\ Miss(c) /\ ~Admitted(c)
        /\ stats[SLEEP] >= 1
        /\ mode[d] = "inline" /\ pc[d] = "done"
        /\ ret[c] = ValueRet(Fresh(d)) /\ ret[d] = ret[c]

\* C3: an invocation is admitted only by a SET NX that finds the refresh
\* lock absent and creates it, one invocation at a step, so that no
\* invocation is admitted while the lock exists; and an invocation that is
\* not admitted never runs refreshvalue.
C3_SingleAdmission ==
    /\ [][/\ \A c \in Calls :
                (mode[c] = "none" /\ mode'[c] # "none") =>
                    (lock_ttl = 0 /\ lock_ttl' > 0 /\ pc[c] = "setnx")
          /\ Cardinality({c \in Calls : mode[c] = "none" /\ mode'[c] # "none"}) <= 1
          /\ \A c \in Calls :
                (pc[c] = "setnx" /\ pc'[c] # "setnx" /\ lock_ttl = 0) =>
                    mode'[c] # "none"]_vars
    /\ [](\A c \in Calls : ~Admitted(c) => (rpc[c] = "none" /\ pc[c] # "inline"))

\* Two invocations found no entry; one was admitted and its refresh is
\* pending, the other did its SET NX meanwhile and was not admitted.
C3_Witness ==
    \E c, d \in Calls :
        /\ c # d /\ Miss(c) /\ Miss(d)
        /\ Admitted(c) /\ Pending(c)
        /\ Passed(d) /\ ~Admitted(d) /\ overlap[d]

\* C4 as stated: an invocation is admitted while the refresh of another is
\* in flight only after a refresh lock expired on a pending refresh; having
\* found no entry it returns the default; and the value in the cache is
\* that of the refreshvalue that wrote last.
C4_Original ==
    cfg.enabled =>
        /\ \A d \in Calls : (Admitted(d) /\ overlap[d]) => overrun
        /\ \A d \in Calls :
              (Admitted(d) /\ overlap[d] /\ Miss(d) /\ pc[d] = "done") =>
                  (defaulted[d] /\ ret[d] = DefaultRet)
        /\ ~IsNone(store_val) => (last_writer # 0 /\ store_val = new_value[last_writer])

\* C4 as amended: it returns the default when wait=false; with wait=true it
\* refreshes in-line and returns what that refresh stored.
C4_LapsedLock ==
    cfg.enabled =>
        /\ \A d \in Calls : (Admitted(d) /\ overlap[d]) => overrun
        /\ \A d \in Calls :
              (Admitted(d) /\ overlap[d] /\ Miss(d) /\ pc[d] = "done") =>
                  IF cfg.wait
                    THEN ~defaulted[d] /\ ret[d] = Some(Deserialize(Val(new_value[d])))
                    ELSE defaulted[d] /\ ret[d] = DefaultRet
        /\ ~IsNone(store_val) => (last_writer # 0 /\ store_val = new_value[last_writer])

\* The function runs twice at once, the later invocation has returned the
\* default; and both refreshes have written, the slower one last.
C4_Witness ==
    \E c, d \in Calls :
        /\ c < d /\ Admitted(c) /\ Admitted(d) /\ overlap[d] /\ ~cfg.wait
        /\ pc[d] = "done" /\ ret[d] = DefaultRet
        /\ rpc[c] = "fin" /\ rpc[d] = "fin" /\ last_writer = c
        /\ store_val = Some(Serialize(Fresh(c)))
        /\ new_value[d] = Some(Serialize(Fresh(d)))

\* C5: an invocation that finds an entry and is admitted (the refresh lock
\* has expired) starts the refresh in a thread and returns the entry it
\* found; an invocation that begins after that refresh has returned and
\* finds what it wrote returns that value.
C5_StaleWhileRevalidate ==
    cfg.enabled =>
        /\ \A c \in Calls : (Hit(c) /\ Admitted(c)) =>
              /\ mode[c] = "thread"
              /\ pc[c] = "done" => ret[c] = Some(Deserialize(Val(read0[c])))
        /\ \A c, d \in Calls : (Hit(c) /\ Admitted(c) /\ ReadAfter(c, d)) =>
              ret[d] = Some(Deserialize(Val(new_value[c])))

\* C6 as stated: of two invocations that found an entry, with no admission
\* from the GET of the first to the return of the second, both return the
\* same value and Refresh is the same at both moments.
C6_Original ==
    cfg.enabled =>
        \A p, q \in Calls :
            (/\ p < q /\ pc[p] = "done" /\ pc[q] = "done" /\ Hit(p) /\ Hit(q)
             /\ at_get[p].adm = at_ret[q].adm) =>
                (ret[p] = ret[q] /\ at_get[p].ref = at_ret[q].ref)

\* C6 as amended: and no refreshvalue admitted earlier was still running at
\* the GET of the first.
C6_Idempotent ==
    cfg.enabled =>
        \A p, q \in Calls :
            (/\ p < q /\ pc[p] = "done" /\ pc[q] = "done" /\ Hit(p) /\ Hit(q)
             /\ at_get[p].adm = at_ret[q].adm /\ ~at_get[p].busy) =>
                (ret[p] = ret[q] /\ at_get[p].ref = at_ret[q].ref)

\* Two invocations found the entry one after the other, nothing was
\* admitted or running meanwhile, and both returned the computed value.
C6_Witness ==
    \E p, q \in Calls :
        /\ cfg.enabled
        /\ p < q /\ pc[p] = "done" /\ pc[q] = "done" /\ Hit(p) /\ Hit(q)
        /\ at_get[p].adm = at_ret[q].adm /\ ~at_get[p].busy
        /\ ret[p] = ValueRet(Fresh(1)) /\ ret[q] = ret[p]
        /\ at_ret[q].ref = 1

\* C7 as stated: expire seconds after the last write of the key the entry
\* is gone; an invocation that begins then finds nothing and, with
\* wait=false, returns the default, is admitted and starts a refresh.
C7_Original ==
    cfg.enabled =>
        /\ (last_writer # 0 /\ age >= cfg.expire) => IsNone(store_val)
        /\ \A c \in Calls : was_expired[c] =>
              /\ IsNone(read0[c])
              /\ (~cfg.wait /\ pc[c] = "done") => (ret[c] = DefaultRet /\ defaulted[c])
              /\ (~cfg.wait /\ Passed(c)) => mode[c] = "thread"

\* C7 as amended: it is admitted unless another invocation was admitted
\* whose refreshvalue had not returned when this one did its GET.
C7_Expiry ==
    cfg.enabled =>
        /\ (last_writer # 0 /\ age >= cfg.expire) => IsNone(store_val)
        /\ \A c \in Calls : was_expired[c] =>
              /\ IsNone(read0[c])
              /\ (~cfg.wait /\ pc[c] = "done") => (ret[c] = DefaultRet /\ defaulted[c])
              /\ (~cfg.wait /\ Passed(c)) =>
                    \/ mode[c] = "thread"
                    \/ /\ ~Admitted(c)
                       /\ \E d \in Calls \ {c} :
                             Admitted(d) /\ d \notin at_get[c].fin

\* The entry was written and expired; an invocation that came then got the
\* default, was admitted, and its thread is running the function.
C7_Witness ==
    \E c \in Calls :
        /\ cfg.enabled /\ ~cfg.wait
        /\ was_expired[c] /\ pc[c] = "done" /\ ret[c] = DefaultRet
        /\ mode[c] = "thread" /\ rpc[c] = "running" /\ ~overlap[c]
        /\ last_writer # 0 /\ last_writer # c /\ IsNone(store_val)

\* C8: an invocation that finds the empty value in the cache returns it,
\* and neither takes the default nor counts one.
C8_EmptyValue ==
    cfg.enabled =>
        \A c \in Calls :
            (pc[c] = "done" /\ read0[c] = Some(Serialize(""))) =>
                /\ ret[c] = ValueRet("")
                /\ ~defaulted[c]
                /\ ~(mode[c] = "inline" /\ failed[c])

\* C9: when the function raises, refreshvalue counts one Failed and one
\* Default, takes the serialized default as new_value, stores it with
\* ex=expire and sets the refresh lock with ex=refresh; an invocation that
\* then finds what it wrote finds the default.
C9_FailurePath ==
    /\ [](cfg.enabled =>
            /\ stats[FAILED] = Cardinality({c \in Calls : failed[c]})
            /\ stats[DEFAULT] =
                  Cardinality({c \in Calls : defaulted[c]})
                  + Cardinality({c \in Calls :
                        failed[c] /\ rpc[c] \in {"set", "setlock", "fin"}})
            /\ \A c \in Calls :
                  (failed[c] /\ rpc[c] \in {"set", "setlock", "fin"}) =>
                      new_value[c] = Some(Serialize(DefaultValue))
            /\ \A c, d \in Calls :
                  (failed[c] /\ Hit(d) /\ at_get[d].lw = c) =>
                      read0[d] = Some(Serialize(DefaultValue)))
    /\ [][\A c \in Calls :
            /\ (failed[c] /\ rpc[c] = "set" /\ rpc'[c] # "set") =>
                  /\ store_val' = Some(Serialize(DefaultValue))
                  /\ store_ttl' = cfg.expire
                  /\ rpc'[c] = "setlock"
            /\ (failed[c] /\ rpc[c] = "setlock" /\ rpc'[c] # "setlock") =>
                  (lock_ttl' = cfg.refresh /\ rpc'[c] = "fin")]_vars

\* The function raised in a thread; a later invocation found the default in
\* the cache and returned it without taking the default itself.
C9_Witness ==
    \E c, d \in Calls :
        /\ failed[c] /\ rpc[c] = "fin" /\ mode[c] = "thread"
        /\ Hit(d) /\ at_get[d].lw = c /\ pc[d] = "done"
        /\ ret[d] = DefaultRet /\ ~defaulted[d]
        /\ stats[FAILED] = 1 /\ stats[DEFAULT] = 2

\* C10 as stated: no invocation ends with the exception of the function.
C10_Original == \A c \in Calls : pc[c] # "raised"

\* C10 as amended: on an enabled cache no invocation ends with the
\* exception of the function; an in-line refresh whose function raised
\* returns the default.
C10_NoPropagation ==
    cfg.enabled =>
        \A c \in Calls :
            /\ pc[c] # "raised"
            /\ (failed[c] /\ mode[c] = "inline" /\ rpc[c] = "fin") =>
                  (pc[c] = "done" /\ ret[c] = DefaultRet)
            /\ (failed[c] /\ mode[c] = "thread" /\ pc[c] = "done") =>
                  ret[c] = Returned(read0[c], DefaultRet)

\* The function raised in an in-line refresh and the invocation returned.
C10_Witness ==
    \E c \in Calls :
        /\ cfg.enabled /\ failed[c] /\ mode[c] = "inline"
        /\ pc[c] = "done" /\ ret[c] = DefaultRet

\* C11: on a disabled cache an invocation is one direct call of the
\* function, returning or raising, and nothing in Redis is created or
\* changed: no cache entry, no refresh lock, no counter.
C11_DisabledDirect ==
    /\ [](~cfg.enabled =>
            /\ IsNone(store_val) /\ store_ttl = 0 /\ lock_ttl = 0
            /\ \A n \in StatNames : stats[n] = 0
            /\ \A c \in Calls :
                  /\ pc[c] \in {"idle", "done", "raised"}
                  /\ rpc[c] = "none" /\ mode[c] = "none"
                  /\ IsNone(read0[c]) /\ IsNone(cached_value[c]))
    /\ [][~cfg.enabled =>
            /\ UNCHANGED <<redis, stats>>
            /\ \A c \in Calls :
                  pc'[c] # pc[c] => (pc[c] = "idle" /\ pc'[c] \in {"done", "raised"})]_vars

\* On a disabled cache one invocation has returned the function's value and
\* another has raised its exception.
C11_Witness ==
    \E c, d \in Calls :
        /\ ~cfg.enabled /\ pc[c] = "done" /\ pc[d] = "raised"
        /\ ret[c] = ValueRet(Fresh(c))

\* C12: a disabled cache returns deserializer(serializer(v)) for the value v
\* of the function, each applied when configured, which is what an enabled
\* cache returns for a value it has just computed in-line; with the JSON
\* pair that is v itself.
C12_DisabledSameValue ==
    \A c \in Calls :
        (pc[c] = "done" /\ (~cfg.enabled \/ (mode[c] = "inline" /\ ~failed[c]))) =>
            /\ ret[c] \in {ValueRet(v) : v \in FResults(c)}
            /\ (cfg.ser /\ cfg.deser) => ret[c] \in {Some(v) : v \in FResults(c)}
            /\ (cfg.ser /\ ~cfg.deser) => ret[c] \in {Some(Dumps(v)) : v \in FResults(c)}
            /\ (~cfg.ser /\ ~cfg.deser) => ret[c] \in {Some(v) : v \in FResults(c)}

\* A disabled cache with the JSON pair returned the function's own value.
C12_Witness ==
    \E c \in Calls :
        /\ ~cfg.enabled /\ cfg.ser /\ cfg.deser
        /\ pc[c] = "done" /\ ret[c] = Some(Fresh(c)) /\ ret[c] # Some(Dumps(Fresh(c)))

\* C13: Missed counts the invocations that found no entry at line 228 and
\* Success those that found one, the empty value included, each invocation
\* once when it passes lines 231-234; a step adds at most one to the two.
C13_HitOrMiss ==
    /\ [](cfg.enabled =>
            /\ stats[MISSED] = Cardinality({c \in Calls :
                                  pc[c] \notin {"idle", "stat"} /\ IsNone(read0[c])})
            /\ stats[SUCCESS] = Cardinality({c \in Calls :
                                  pc[c] \notin {"idle", "stat"} /\ ~IsNone(read0[c])})
            /\ stats[MISSED] + stats[SUCCESS] =
                  Cardinality({c \in Calls : pc[c] \notin {"idle", "stat"}}))
    /\ [][(stats'[MISSED] # stats[MISSED] \/ stats'[SUCCESS] # stats[SUCCESS]) =>
            /\ stats'[MISSED] + stats'[SUCCESS] = stats[MISSED] + stats[SUCCESS] + 1
            /\ \E c \in Calls : pc[c] = "stat" /\ pc'[c] # "stat"]_vars

\* An invocation found the empty value and was counted in Success, after
\* another that found nothing was counted in Missed.
C13_Witness ==
    \E c, d \in Calls :
        /\ cfg.enabled /\ IsNone(read0[c]) /\ pc[c] = "done"
        /\ read0[d] = Some(Serialize("")) /\ pc[d] = "done"
        /\ stats[MISSED] = 1 /\ stats[SUCCESS] = 1
        /\ \A e \in Calls \ {c, d} : pc[e] = "idle"

\* Place of counter n in STATS.
IndexOf(n) == CHOOSE i \in 1..Len(STATS) : STATS[i] = n
RECURSIVE ReportedIn(_, _)
ReportedIn(n, k) ==
    IF k = 0 THEN 0
    ELSE (IF gs_log[k].delete THEN gs_log[k].out[n] ELSE 0) + ReportedIn(n, k - 1)
\* What the calls get_stats(delete=True) have read of counter n and then
\* deleted.
Reported(n) ==
    ReportedIn(n, Len(gs_log))
    + (IF gs_pc = "del" /\ IndexOf(n) < gs_i THEN gs_out[n] ELSE 0)

\* C14: a get_stats during which no counter is incremented returns the
\* counters as they are when it is called (0, None, for one that does not
\* exist); and after a get_stats(delete=True), a get_stats returns None
\* for every counter when no counter was incremented from the beginning of
\* the first call to the return of the second.
C14_GetStatsDelete ==
    \A k \in 1..Len(gs_log) :
        /\ gs_log[k].before = gs_log[k].after => gs_log[k].out = gs_log[k].stats
        /\ (/\ k < Len(gs_log) /\ gs_log[k].delete
            /\ gs_log[k].before = gs_log[k + 1].after) =>
                \A n \in StatNames : gs_log[k + 1].out[n] = 0

\* After an invocation, get_stats(delete=True) returned Refresh, Missed and
\* Default as 1 and Wait as None, and the get_stats after it returned None
\* for all seven.
C14_Witness ==
    /\ Len(gs_log) = 2 /\ gs_log[1].delete
    /\ gs_log[1].before = gs_log[2].after
    /\ gs_log[1].out[REFRESH] = 1 /\ gs_log[1].out[MISSED] = 1
    /\ gs_log[1].out[DEFAULT] = 1 /\ gs_log[1].out[WAIT] = 0
    /\ \A n \in StatNames : gs_log[2].out[n] = 0

\* C15: the increments of a counter between its GET of line 318 and its
\* DELETE of line 321 are lost: every incr executed on a counter is either
\* in the counter, or in what a get_stats(delete=True) returned, or was
\* made between that GET and that DELETE, and these last are in neither.
C15_LostIncrement ==
    /\ [](\A n \in StatNames : Incremented(n) = Reported(n) + stats[n] + lost[n])
    /\ [][\A n \in StatNames :
            lost'[n] # lost[n] =>
                /\ gs_pc = "del" /\ gs_delete /\ STATS[gs_i] = n
                /\ lost'[n] - lost[n] = stats[n] - gs_out[n]
                /\ stats'[n] = 0
                /\ gs_out'[n] = gs_out[n]]_vars

\* The invocation was counted in Missed after get_stats(delete=True) had
\* read Missed and before it deleted it: neither that call nor the next
\* get_stats returned it, and the counter does not exist.
C15_Witness ==
    /\ Len(gs_log) = 2 /\ gs_log[1].delete
    /\ Incremented(MISSED) = 1 /\ lost[MISSED] = 1
    /\ gs_log[1].out[MISSED] = 0 /\ gs_log[2].out[MISSED] = 0
    /\ stats[MISSED] = 0

\* C16: a step lowers a counter only when it is the DELETE of that counter
\* by a get_stats(delete=True); every other step leaves it or adds one.
C16_Monotone ==
    [][\A n \in StatNames :
          /\ stats'[n] < stats[n] =>
                (gs_pc = "del" /\ gs_delete /\ STATS[gs_i] = n /\ stats'[n] = 0)
          /\ stats'[n] <= stats[n] + 1]_vars

\* Missed was 1, a get_stats(delete=True) returned and deleted it, and the
\* thread of the invocation has since counted its Refresh.
C16_Witness ==
    /\ Len(gs_log) >= 1 /\ gs_log[1].delete
    /\ gs_log[1].out[MISSED] = 1 /\ stats[MISSED] = 0
    /\ gs_log[1].out[REFRESH] = 0 /\ stats[REFRESH] = 1

\* The arguments that take part in the key: all of them when no allow-list
\* is given, those the allow-list names when one is given.
RECURSIVE TakePart(_, _, _)
TakePart(kwargs, use, i) ==
    IF i > Len(kwargs) THEN <<>>
    ELSE (IF IsNone(use) \/ kwargs[i][1] \in Val(use)
            THEN <<"'" \o ToString(kwargs[i][2]) \o "'">> ELSE <<>>)
         \o TakePart(kwargs, use, i + 1)

\* C17: the key is the name, "(", the quoted texts of the arguments that
\* take part, joined by commas, and ")": positional arguments first, in
\* their order, then keyword arguments in theirs; with an allow-list, only
\* the positions or names in it take part, and without one, all.
C17_KeyBuilder ==
    ~IsNone(key_out) =>
        Val(key_out) =
            key_in.name \o "("
            \o Join(TakePart([i \in 1..Len(key_in.args) |-> <<i - 1, key_in.args[i]>>],
                             key_in.use_args, 1)
                    \o TakePart(key_in.kwargs, key_in.use_kwargs, 1))
            \o ")"

\* The longest TTL the refresh lock is given (lines 197 and 237).
LockTTL == IF LockEx > cfg.refresh THEN LockEx ELSE cfg.refresh

\* C18 as stated: an invocation goes through sleep(1) at most as many
\* times as the refresh lock has seconds to live, whatever the others do.
C18_Original ==
    cfg.enabled => \A c \in Calls : sleeps[c] <= LockTTL

\* C18 as amended: an invocation during whose polling no other invocation
\* is admitted goes through sleep(1) at most once more than the refresh
\* lock has seconds to live (a refresh that ends just after a re-read sets
\* the lock again, and the loop sleeps once more before it sees the value);
\* and in any case the loop is left at the re-read that finds a value,
\* which is returned, or at the test that finds the refresh lock absent.
C18_BoundedWait ==
    /\ [](cfg.enabled => \A c \in Calls : steady[c] => sleeps[c] <= LockTTL + 1)
    /\ [][\A c \in Calls :
            /\ (pc[c] = "reread" /\ pc'[c] # "reread") =>
                  IF IsNone(store_val)
                    THEN pc'[c] = "loop"
                    ELSE pc'[c] = "done" /\ ret'[c] = Some(Deserialize(Val(store_val)))
            /\ (pc[c] = "loop" /\ pc'[c] # "loop") =>
                  IF lock_ttl = 0 THEN pc'[c] = "dflt" ELSE pc'[c] = "sleepincr"]_vars

\* An invocation slept once more than the refresh lock lived while nobody
\* was admitted, and then returned the value of the refresh it waited for.
C18_Witness ==
    \E c, d \in Calls :
        /\ cfg.enabled /\ cfg.wait /\ steady[c] /\ c # d
        /\ sleeps[c] = LockTTL + 1 /\ pc[c] = "done" /\ ~defaulted[c]
        /\ ret[c] = ValueRet(Fresh(d))

\* C19: an invocation that has started the thread of refreshvalueinthread
\* waits for nothing: it has returned, or has only lines 260-266 left,
\* which it can always execute; what it returns is the value it read at
\* line 228, or the default when it read none, and stays so whatever its
\* thread does.
C19_FireAndForget ==
    cfg.enabled =>
        \A c \in Calls : mode[c] = "thread" =>
            /\ pc[c] \in {"dflt", "done"}
            /\ sleeps[c] = 0
            /\ pc[c] = "dflt" => (IsNone(read0[c]) /\ ENABLED UseDefault(c))
            /\ pc[c] = "done" =>
                  ret[c] = IF IsNone(read0[c]) THEN DefaultRet
                           ELSE Some(Deserialize(Val(read0[c])))

\* An invocation returned the value it read while the function was running
\* in its thread, and another returned the default and its thread failed.
C19_Witness ==
    \E c, d \in Calls :
        /\ cfg.enabled /\ mode[c] = "thread" /\ mode[d] = "thread"
        /\ pc[c] = "done" /\ rpc[c] = "running"
        /\ ~IsNone(read0[c]) /\ ret[c] = Some(Deserialize(Val(read0[c])))
        /\ pc[d] = "done" /\ failed[d] /\ rpc[d] = "fin"
        /\ IsNone(read0[d]) /\ ret[d] = DefaultRet

\* C20: an admitted invocation refreshes in-line, and counts one Wait,
\* exactly when wait is true and it read no value; otherwise, the empty
\* value included, it starts the thread, counts no Wait and goes on with
\* what it read.
C20_InlineIffAbsent ==
    cfg.enabled =>
        /\ \A c \in Calls : Admitted(c) =>
              /\ mode[c] = "inline" <=> (IsNone(read0[c]) /\ cfg.wait)
              /\ (~IsNone(read0[c]) /\ pc[c] = "done") =>
                    ret[c] = Some(Deserialize(Val(read0[c])))
        /\ stats[WAIT] = Cardinality({c \in Calls :
                              /\ Admitted(c) /\ IsNone(read0[c]) /\ cfg.wait
                              /\ pc[c] # "wait"})

\* C21: an invocation whose SET NX failed runs no refreshvalue, in-line or
\* in a thread; a step it takes leaves the cache entry and the refresh lock
\* as they are, changes no counter but Missed, Success, Sleep and Default,
\* and the default it returns at line 266 is not stored.
C21_NotAdmitted ==
    /\ [](cfg.enabled =>
            \A c \in Calls : ~Admitted(c) =>
                /\ rpc[c] = "none" /\ pc[c] \notin {"wait", "inline"}
                /\ IsNone(new_value[c]) /\ ~failed[c] /\ last_writer # c)
    /\ [][cfg.enabled =>
            \A c \in Calls :
                (pc'[c] # pc[c] /\ pc[c] # "sleeping" /\ mode'[c] = "none") =>
                    /\ UNCHANGED <<store_val, store_ttl, lock_ttl>>
                    /\ \A n \in {REFRESH, WAIT, FAILED} : stats'[n] = stats[n]
                    /\ pc[c] = "dflt" =>
                          /\ ret'[c] = DefaultRet
                          /\ stats'[DEFAULT] = stats[DEFAULT] + 1]_vars

\* An invocation that was not admitted slept, found the refresh lock gone
\* and returned the default, and the cache still holds nothing.
C21_Witness ==
    \E c \in Calls :
        /\ cfg.enabled /\ Passed(c) /\ ~Admitted(c)
        /\ pc[c] = "done" /\ defaulted[c] /\ ret[c] = DefaultRet
        /\ sleeps[c] >= 1 /\ IsNone(store_val)
        /\ stats[REFRESH] = 1 /\ stats[WAIT] = 1

\* C22: the SET NX that admits an invocation gives the refresh lock the TTL
\* retry when retry is given, else refresh; a refreshvalue that gets past
\* the function, with its value or with the default, first stores
\* new_value with TTL expire, leaving the lock alone, and only then sets
\* the lock with TTL refresh, whatever the lock was, and returns.
C22_TTLProtocol ==
    [][cfg.enabled =>
         \A c \in Calls :
            /\ (mode[c] = "none" /\ mode'[c] # "none") =>
                  /\ lock_ttl = 0
                  /\ lock_ttl' = IF cfg.retry # 0 THEN cfg.retry ELSE cfg.refresh
                  /\ UNCHANGED <<store_val, store_ttl>>
            /\ (rpc[c] # "setlock" /\ rpc'[c] = "setlock") =>
                  /\ rpc[c] \in {"running", "set"}
                  /\ store_val' = new_value'[c] /\ ~IsNone(store_val')
                  /\ store_ttl' = cfg.expire
                  /\ lock_ttl' = lock_ttl
            /\ (rpc[c] # "fin" /\ rpc'[c] = "fin") =>
                  /\ rpc[c] = "setlock"
                  /\ lock_ttl' = cfg.refresh
                  /\ UNCHANGED <<store_val, store_ttl>>]_vars

\* With retry longer than refresh: the lock of the first admission expired
\* while the function ran, a second invocation was admitted and set the
\* lock with TTL retry, and the first refreshvalue then stored its value
\* and set the lock again, with TTL refresh.
C22_Witness ==
    \E c, d \in Calls :
        /\ cfg.enabled /\ cfg.retry > cfg.refresh
        /\ c # d /\ rpc[c] = "fin" /\ last_writer = c /\ age = 0
        /\ Admitted(d) /\ overlap[d] /\ rpc[d] = "running"
        /\ store_ttl = cfg.expire /\ lock_ttl = cfg.refresh

\* The invocations whose refreshvalue has called the function (line 175).
FCalled == {c \in Calls : rpc[c] \in {"running", "failed", "set", "setlock", "fin"}}

\* C23: on an enabled cache, with no get_stats(delete=True), Refresh is
\* incremented once by each run of refreshvalue, at the step that goes on
\* to call the function, and by nothing else; so the calls of the function
\* begun are never more than Refresh, and when no refreshvalue is running
\* Refresh is the number of calls of the function, of which Wait counts
\* those made in-line.
C23_RefreshCount ==
    /\ [](cfg.enabled =>
            /\ Cardinality(FCalled) <= stats[REFRESH]
            /\ (\A c \in Calls : rpc[c] \in {"none", "fin"} /\ pc[c] # "wait") =>
                  /\ stats[REFRESH] = Cardinality({c \in Calls : rpc[c] = "fin"})
                  /\ stats[REFRESH] = Cardinality({c \in Calls : Admitted(c)})
                  /\ stats[WAIT] = Cardinality({c \in Calls :
                                        rpc[c] = "fin" /\ mode[c] = "inline"}))
    /\ [][cfg.enabled =>
            /\ stats'[REFRESH] # stats[REFRESH] =>
                  /\ stats'[REFRESH] = stats[REFRESH] + 1
                  /\ \E c \in Calls : rpc[c] = "start" /\ rpc'[c] = "running"
            /\ \A c \in Calls :
                  (c \notin FCalled /\ c \in FCalled') =>
                      (rpc[c] = "start" /\ stats'[REFRESH] = stats[REFRESH] + 1)]_vars

\* One refresh ran in-line and one in a thread, both have returned:
\* Refresh is 2 and Wait is 1.
C23_Witness ==
    \E c, d \in Calls :
        /\ cfg.enabled /\ c # d
        /\ mode[c] = "inline" /\ rpc[c] = "fin"
        /\ mode[d] = "thread" /\ rpc[d] = "fin"
        /\ \A e \in Calls : rpc[e] \in {"none", "fin"}
        /\ stats[REFRESH] = 2 /\ stats[WAIT] = 1

\* No call of the function has returned a value: each one is running or
\* has raised.
AlwaysRaises == \A c \in Calls : rpc[c] \in {"setlock", "fin"} => failed[c]

\* C24: with wait=false, as long as every call of the function has raised,
\* every invocation that returns returns the default, whether it found
\* nothing or found what a failed refresh stored; and when no refreshvalue
\* is running Failed equals Refresh.
C24_AlwaysFailing ==
    (cfg.enabled /\ ~cfg.wait /\ AlwaysRaises) =>
        /\ \A c \in Calls : pc[c] = "done" => ret[c] = DefaultRet
        /\ ~IsNone(store_val) => store_val = Some(Serialize(DefaultValue))
        /\ (\A c \in Calls : rpc[c] \in {"none", "fin"}) =>
              /\ stats[FAILED] = stats[REFRESH]
              /\ stats[FAILED] = Cardinality({c \in Calls : Admitted(c)})

\* The function raised twice.  The first invocation found nothing and
\* returned the default; the second came when the refresh lock had expired,
\* found the default the failed refresh had stored, returned it and started
\* the second refresh; a third found it too.  Failed = Refresh = 2.
C24_Witness ==
    \E c, d, e \in Calls :
        /\ cfg.enabled /\ ~cfg.wait /\ AlwaysRaises
        /\ c < d /\ d < e
        /\ \A x \in Calls : pc[x] = "done" /\ rpc[x] \in {"none", "fin"}
        /\ failed[c] /\ defaulted[c] /\ ret[c] = DefaultRet
        /\ failed[d] /\ Hit(d) /\ ~defaulted[d] /\ ret[d] = DefaultRet
        /\ Hit(e) /\ ~Admitted(e) /\ ret[e] = DefaultRet
        /\ stats[FAILED] = 2 /\ stats[REFRESH] = 2

\* C25: the cache entry and the refresh lock go away only when their TTL
\* runs out: a step after which the entry, or the lock, no longer exists
\* is the passing of its last second; and a step of get_stats, with or
\* without delete, leaves the entry and the lock as they are and changes
\* nothing but counters.
C25_NoExplicitDelete ==
    [][/\ (~IsNone(store_val) /\ IsNone(store_val')) =>
             /\ store_ttl = 1 /\ store_ttl' = 0
             /\ \A c \in Calls : AtRest(c)
             /\ UNCHANGED <<stats, rpc>>
       /\ (lock_ttl > 0 /\ lock_ttl' = 0) =>
             /\ lock_ttl = 1
             /\ \A c \in Calls : AtRest(c)
             /\ UNCHANGED <<stats, rpc>>
       /\ (store_ttl > 0 /\ store_ttl' < store_ttl) => store_ttl' = store_ttl - 1
       /\ (gs_pc # "idle" /\ <<gs_pc, gs_i>>' # <<gs_pc, gs_i>>) =>
             /\ UNCHANGED <<store_val, store_ttl, lock_ttl>>
             /\ UNCHANGED <<pc, rpc, cached_value, new_value, ret>>
             /\ \A n \in StatNames : stats'[n] \in {stats[n], 0}]_vars

\* A get_stats(delete=True) deleted the counters, Refresh among them, and
\* returned while the cache entry and the refresh lock existed; they still
\* do.
C25_Witness ==
    /\ Len(gs_log) >= 1 /\ gs_log[Len(gs_log)].delete
    /\ gs_log[Len(gs_log)].out[REFRESH] = 1
    /\ gs_log[Len(gs_log)].before = gs_log[Len(gs_log)].after
    /\ gs_pc = "idle"
    /\ \A n \in StatNames : stats[n] = 0
    /\ store_val = Some(Serialize(Fresh(1))) /\ store_ttl = cfg.expire
    /\ lock_ttl = cfg.refresh

\* C26: invocations are admitted, and their refreshvalue calls the
\* function, in the order of their numbers; a refreshvalue that stores its
\* value over an entry that exists was admitted after the one that wrote
\* that entry.
C26_FreshnessOrder ==
    [][cfg.enabled =>
         \A c \in Calls :
            (rpc[c] \in {"running", "set"} /\ rpc'[c] = "setlock"
             /\ ~IsNone(store_val) /\ last_writer # 0) =>
                last_writer < c]_vars

NoReset(k) == \A j \in 1..k : ~gs_log[j].delete

\* C28: as long as no get_stats(delete=True) has been called, Failed is at
\* most Refresh in Redis, and in what every get_stats returns, whatever the
\* invocations and their threads do while it reads.
C28_ConsistentSnapshot ==
    /\ (NoReset(Len(gs_log)) /\ ~(gs_pc # "idle" /\ gs_delete)) =>
            stats[FAILED] <= stats[REFRESH]
    /\ \A k \in 1..Len(gs_log) :
            NoReset(k) => gs_log[k].out[FAILED] <= gs_log[k].out[REFRESH]

\* C29: every invocation that is made returns (or, on a disabled cache,
\* ends with the exception of the function), whatever the other
\* invocations do, provided threads run, the function ends and time
\* passes: an invocation does not stay in progress for ever, so from some
\* moment on it has returned, unless it is never made.
C29_Terminates ==
    \A c \in Calls : <>[](pc[c] \in {"idle", "never", "done", "raised"})

\* An invocation polled while two others were admitted one after the other,
\* the second re-creating the refresh lock that had lapsed; it slept more
\* than once and returned.
C29_Witness ==
    \E c \in Calls :
        /\ cfg.enabled /\ cfg.wait /\ pc[c] = "done"
        /\ ~Admitted(c) /\ ~steady[c] /\ sleeps[c] >= 2
        /\ \A d \in Calls \ {c} : Admitted(d)
====
